---- MODULE Spec2Model ----
(***************************************************************************)
(* Model of get_pole_vector.py: the pole-vector computation                *)
(* (get_pole_vec_pos), the locator placement (place_locator) and the       *)
(* entry point (main) run against a Maya scene.                            *)
(*                                                                         *)
(* Numbers.  A Python/C++ double is modelled as an extended rational       *)
(* <<n, d>> in lowest terms with d >= 0: d > 0 is the finite value n/d,    *)
(* <<1, 0>> is +Infinity, <<-1, 0>> is -Infinity and <<0, 0>> is NaN.      *)
(* Arithmetic on finite values is exact; the rounding of IEEE doubles is   *)
(* not modelled, and the inputs are drawn from the positions on which      *)
(* every square root the code takes is itself rational, so that the exact  *)
(* value is the value the code computes up to rounding.  Signed zeros are  *)
(* not distinguished.                                                      *)
(***************************************************************************)
EXTENDS Integers, Sequences, FiniteSets

VARIABLES
    root_pos,     \* argument root_pos of the latest get_pole_vec_pos call
    mid_pos,      \* argument mid_pos of the latest get_pole_vec_pos call
    end_pos,      \* argument end_pos of the latest get_pole_vec_pos call
    multiplier,   \* argument multiplier of the latest get_pole_vec_pos call
    ret,          \* value returned by get_pole_vec_pos (NoValue when none)
    error,        \* exception that left the latest top-level call, or "none"
    pc,           \* "start", then "returned" or "raised"
    displayInfo,  \* lines written through MGlobal.displayInfo, in order
    selection,    \* the host's current selection, in selection order
    locators,     \* world positions of the locators created so far
    hostCalls,    \* host commands issued by the latest run of main, in order
    selBefore,    \* selection when the latest run of main started
    locsBefore,   \* locators when the latest run of main started
    infoBefore    \* displayInfo when the latest run of main started

vars == <<root_pos, mid_pos, end_pos, multiplier, ret, error, pc, displayInfo,
          selection, locators, hostCalls, selBefore, locsBefore, infoBefore>>

(***************************************************************************)
(* Bounds of the model.                                                    *)
(***************************************************************************)
MaxRoot == 1      \* root coordinates range over 0..MaxRoot
MaxCoord == 4     \* mid and end x, y coordinates range over 0..MaxCoord
MaxDepth == 2     \* mid and end z coordinates range over 0..MaxDepth
MaxMulNum == 3    \* multipliers n/MulDen, n in -MaxMulNum..MaxMulNum
MulDen == 8
NumJoints == 5    \* joints of the scene
MaxSel == 4       \* longest initial selection

(***************************************************************************)
(* Doubles as extended rationals.                                          *)
(***************************************************************************)
Abs(n) == IF n < 0 THEN -n ELSE n

Sign(n) == IF n > 0 THEN 1 ELSE IF n < 0 THEN -1 ELSE 0

RECURSIVE GCD(_, _)
GCD(a, b) == IF b = 0 THEN a ELSE GCD(b, a % b)

Float(n, d) ==
    IF d = 0 THEN <<Sign(n), 0>>
    ELSE LET g == GCD(Abs(n), Abs(d))
         IN  <<(Sign(d) * n) \div g, Abs(d) \div g>>

NaN == <<0, 0>>
PosInf == <<1, 0>>
NegInf == <<-1, 0>>
Zero == <<0, 1>>
One == <<1, 1>>

IsFinite(x) == x[2] # 0

FNeg(x) == <<-x[1], x[2]>>

FAdd(x, y) ==
    IF x = NaN \/ y = NaN THEN NaN
    ELSE IF ~IsFinite(x) /\ ~IsFinite(y) THEN (IF x = y THEN x ELSE NaN)
    ELSE IF ~IsFinite(x) THEN x
    ELSE IF ~IsFinite(y) THEN y
    ELSE Float(x[1] * y[2] + y[1] * x[2], x[2] * y[2])

FSub(x, y) == FAdd(x, FNeg(y))

FMul(x, y) == Float(x[1] * y[1], x[2] * y[2])

\* C++ double division: x / 0 is an infinity or NaN, never an exception.
FDiv(x, y) ==
    IF x = NaN \/ y = NaN \/ (~IsFinite(x) /\ ~IsFinite(y)) THEN NaN
    ELSE IF ~IsFinite(y) THEN Zero
    ELSE IF ~IsFinite(x) THEN (IF y[1] < 0 THEN FNeg(x) ELSE x)
    ELSE Float(x[1] * y[2], x[2] * y[1])

FLess(x, y) == IsFinite(x) /\ IsFinite(y) /\ x[1] * y[2] < y[1] * x[2]

FAbs(x) == <<Abs(x[1]), x[2]>>

RECURSIVE RootFrom(_, _)
RootFrom(n, k) == IF k * k >= n THEN k ELSE RootFrom(n, k + 1)

IsSquare(n) == n >= 0 /\ RootFrom(n, 0) * RootFrom(n, 0) = n

\* sqrt of a double; exact on the rationals whose root is rational.
FSqrt(x) ==
    IF ~IsFinite(x) THEN (IF x = PosInf THEN PosInf ELSE NaN)
    ELSE IF x[1] < 0 THEN NaN
    ELSE <<RootFrom(x[1], 0), RootFrom(x[2], 0)>>

HasExactRoot(x) == IsFinite(x) /\ IsSquare(x[1]) /\ IsSquare(x[2])

(***************************************************************************)
(* maya.OpenMaya.MVector: a triple of doubles.                             *)
(***************************************************************************)
\* MVector(*pos): the three list entries become the x, y, z doubles.
MVector(pos) == <<Float(pos[1], 1), Float(pos[2], 1), Float(pos[3], 1)>>

VSub(u, v) == <<FSub(u[1], v[1]), FSub(u[2], v[2]), FSub(u[3], v[3])>>

VAdd(u, v) == <<FAdd(u[1], v[1]), FAdd(u[2], v[2]), FAdd(u[3], v[3])>>

\* MVector * MVector: the dot product, a double.
Dot(u, v) == FAdd(FAdd(FMul(u[1], v[1]), FMul(u[2], v[2])), FMul(u[3], v[3]))

\* MVector * double.
VScale(v, s) == <<FMul(v[1], s), FMul(v[2], s), FMul(v[3], s)>>

\* MVector.length()
Length(v) == FSqrt(Dot(v, v))

NaNVec == <<NaN, NaN, NaN>>

(***************************************************************************)
(* MVector.normal() of a zero-length vector is not defined by the library: *)
(* the vector comes back unchanged ("zero") or every component is 0/0      *)
(* ("nan").  Neither outcome raises.                                       *)
(***************************************************************************)
ZeroNormalOutcomes == {"zero", "nan"}

NormalUnscaled(v, zn) == v

Normal(v, zn) ==
    LET len == Length(v)
    IN  IF len = Zero
        THEN (IF zn = "zero" THEN v ELSE NaNVec)
        ELSE <<FDiv(v[1], len), FDiv(v[2], len), FDiv(v[3], len)>>

(***************************************************************************)
(* get_pole_vec_pos                                                        *)
(***************************************************************************)
NoValue == <<>>

\* A division that follows IEEE 754 instead of raising.
IeeeFloatDiv(x, y) == [raised |-> "none", value |-> FDiv(x, y)]

\* Python's float / float: a zero divisor raises ZeroDivisionError.
PyFloatDiv(x, y) ==
    IF y = Zero
    THEN [raised |-> "ZeroDivisionError", value |-> NaN]
    ELSE [raised |-> "none", value |-> FDiv(x, y)]

\* line = end_vec - root_vec
Line(root_vec, end_vec) == VSub(end_vec, root_vec)

\* source_point = mid_vec - root_vec
SourcePoint(root_vec, mid_vec) == VSub(mid_vec, root_vec)

\* closest_point_scale_val = (line * source_point) / (line * line)
ClosestPointScaleVal(line, source_point) ==
    PyFloatDiv(Dot(line, source_point), Dot(line, line))

ClosestMidPointFromOrigin(line, closest_point_scale_val, root_vec) ==
    VScale(line, closest_point_scale_val)

\* closest_mid_point = (line * closest_point_scale_val) + root_vec
ClosestMidPoint(line, closest_point_scale_val, root_vec) ==
    VAdd(VScale(line, closest_point_scale_val), root_vec)

TotalMagAdded(root_vec, mid_vec, end_vec, mult) ==
    FAdd(FAdd(Length(VSub(mid_vec, root_vec)), Length(VSub(end_vec, mid_vec))),
         mult)

\* total_mag = (root_to_mid_mag + mid_to_end_mag) * multiplier
TotalMag(root_vec, mid_vec, end_vec, mult) ==
    LET root_to_mid_mag == Length(VSub(mid_vec, root_vec))
        mid_to_end_mag == Length(VSub(end_vec, mid_vec))
    IN  FMul(FAdd(root_to_mid_mag, mid_to_end_mag), mult)

PoleVectorFromClosest(mid_vec, closest_mid_point, total_mag, zn) ==
    VAdd(VScale(Normal(VSub(mid_vec, closest_mid_point), zn), total_mag),
         closest_mid_point)

PoleVectorUnnormalised(mid_vec, closest_mid_point, total_mag, zn) ==
    VAdd(VScale(NormalUnscaled(VSub(mid_vec, closest_mid_point), zn), total_mag),
         mid_vec)

\* pole_vector = (mid_vec - closest_mid_point).normal() * total_mag + mid_vec
PoleVector(mid_vec, closest_mid_point, total_mag, zn) ==
    VAdd(VScale(Normal(VSub(mid_vec, closest_mid_point), zn), total_mag),
         mid_vec)

\* The whole function: what it raises, what it returns and the lines it
\* writes through MGlobal.displayInfo.
GetPoleVecPos(root, mid, end, mult, zn) ==
    LET root_vec == MVector(root)
        mid_vec == MVector(mid)
        end_vec == MVector(end)
        line == Line(root_vec, end_vec)
        source_point == SourcePoint(root_vec, mid_vec)
        scale == ClosestPointScaleVal(line, source_point)
    IN  IF scale.raised # "none"
        THEN [raised |-> scale.raised, value |-> NoValue, info |-> <<>>]
        ELSE LET closest_mid_point == ClosestMidPoint(line, scale.value, root_vec)
                 total_mag == TotalMag(root_vec, mid_vec, end_vec, mult)
                 pole_vector ==
                     PoleVector(mid_vec, closest_mid_point, total_mag, zn)
             IN  [raised |-> "none", value |-> pole_vector,
                  info |-> <<pole_vector>>]

(***************************************************************************)
(* Direct calls of get_pole_vec_pos: the inputs.                           *)
(***************************************************************************)
RootPoints == (0..MaxRoot) \X (0..MaxRoot) \X (0..MaxRoot)

Points == (0..MaxCoord) \X (0..MaxCoord) \X (0..MaxDepth)

NonFinite == {NaN, PosInf, NegInf}

Multipliers ==
    {Float(n, MulDen) : n \in -MaxMulNum..MaxMulNum}
        \cup {Float(-1, 1), Float(1, 1), Float(2, 1)}
        \cup NonFinite

SqDist(p, q) == Dot(VSub(MVector(p), MVector(q)), VSub(MVector(p), MVector(q)))

\* The point of the line through root and end nearest to mid (root # end).
Foot(root, mid, end) ==
    LET along == VSub(MVector(end), MVector(root))
        t == FDiv(Dot(along, VSub(MVector(mid), MVector(root))),
                  Dot(along, along))
    IN  VAdd(MVector(root), VScale(along, t))

\* Squared distance from mid to the line through root and end (root # end).
SqDistToLine(root, mid, end) ==
    LET v == VSub(MVector(mid), Foot(root, mid, end)) IN Dot(v, v)

\* The positions on which every length the code takes is rational.
ExactLengths(root, mid, end) ==
    /\ HasExactRoot(SqDist(mid, root))
    /\ HasExactRoot(SqDist(end, mid))
    /\ root # end => HasExactRoot(SqDistToLine(root, mid, end))

Untouched == UNCHANGED <<selection, locators, hostCalls, selBefore, locsBefore,
                         infoBefore>>

InitCalc ==
    /\ root_pos \in RootPoints
    /\ mid_pos \in Points
    /\ HasExactRoot(SqDist(mid_pos, root_pos))
    /\ end_pos \in Points
    /\ ExactLengths(root_pos, mid_pos, end_pos)
    /\ multiplier \in Multipliers
    /\ ret = NoValue
    /\ error = "none"
    /\ pc = "start"
    /\ displayInfo = <<>>
    /\ selection = <<>>
    /\ locators = <<>>
    /\ hostCalls = <<>>
    /\ selBefore = <<>>
    /\ locsBefore = <<>>
    /\ infoBefore = <<>>

\* One call get_pole_vec_pos(root_pos, mid_pos, end_pos, multiplier).
Call ==
    /\ pc = "start"
    /\ \E zn \in ZeroNormalOutcomes :
         LET r == GetPoleVecPos(root_pos, mid_pos, end_pos, multiplier, zn)
         IN  /\ ret' = r.value
             /\ error' = r.raised
             /\ pc' = IF r.raised = "none" THEN "returned" ELSE "raised"
             /\ displayInfo' = displayInfo \o r.info
    /\ UNCHANGED <<root_pos, mid_pos, end_pos, multiplier>>
    /\ Untouched

NextCalc == Call

SpecCalc == InitCalc /\ [][NextCalc]_vars

(***************************************************************************)
(* The host scene, place_locator and main.                                 *)
(* A node is <<"joint", j>> or <<"locator", n>>.  hostCalls names the host *)
(* commands of a run in the order main issues them.                        *)
(***************************************************************************)
ScenePositions == << <<0, 0, 0>>, <<0, 3, 0>>, <<4, 0, 0>>, <<-4, 0, 0>> >>

Joints == {<<"joint", j>> : j \in 1..NumJoints}

\* World position of a joint; joints beyond the listed positions sit on top
\* of earlier ones.
JointPos(j) == ScenePositions[((j - 1) % Len(ScenePositions)) + 1]

\* cmds.ls(selection=True, type="joint")
LsSelectionJoints(sel) == SelectSeq(sel, LAMBDA n : n[1] = "joint")

\* cmds.xform(jnt, query=True, rotatePivot=True, worldSpace=True)
XformQuery(jnt) == JointPos(jnt[2])

SelectionAtLeastThree(joints) == Len(joints) >= 3

\* the guard of main: len(joints) != 3 raises through cmds.error
SelectionOk(joints) == Len(joints) = 3

PlaceLocatorAtOrigin(locs, position) ==
    [locators |-> Append(locs, MVector(<<0, 0, 0>>)),
     selection |-> << <<"locator", Len(locs) + 1>> >>,
     calls |-> <<"spaceLocator", "xform", "select">>]

\* place_locator: a new locator, moved to position, then selected.
PlaceLocator(locs, position) ==
    [locators |-> Append(locs, position),
     selection |-> << <<"locator", Len(locs) + 1>> >>,
     calls |-> <<"spaceLocator", "xform", "select">>]

\* The multiplier main passes to get_pole_vec_pos.
MainMultiplier == One

Queries(n) == [i \in 1..n |-> "xform_query"]

InitialSelections ==
    {s \in UNION {[1..k -> Joints] : k \in 0..MaxSel} :
        \A i, j \in DOMAIN s : i # j => s[i] # s[j]}

Init ==
    /\ selection \in InitialSelections
    /\ locators = <<>>
    /\ displayInfo = <<>>
    /\ hostCalls = <<>>
    /\ selBefore = selection
    /\ locsBefore = <<>>
    /\ infoBefore = <<>>
    /\ root_pos = <<0, 0, 0>>
    /\ mid_pos = <<0, 0, 0>>
    /\ end_pos = <<0, 0, 0>>
    /\ multiplier = One
    /\ ret = NoValue
    /\ error = "none"
    /\ pc = "start"

Raise(exc, calls) ==
    /\ pc' = "raised"
    /\ error' = exc
    /\ hostCalls' = calls
    /\ UNCHANGED <<selection, locators>>

\* One run of main(): the selection check, the position queries, the call of
\* get_pole_vec_pos and place_locator, up to the return or the exception that
\* leaves it.  A call with a number of positions other than three would be a
\* TypeError of the call get_pole_vec_pos(*positions, 1).
Main ==
    LET joints == LsSelectionJoints(selection)
        positions == [i \in 1..Len(joints) |-> XformQuery(joints[i])]
    IN  /\ selBefore' = selection
        /\ locsBefore' = locators
        /\ infoBefore' = displayInfo
        /\ IF ~SelectionOk(joints)
           THEN \* cmds.error raises RuntimeError
                /\ Raise("RuntimeError", <<"ls", "error">>)
                /\ ret' = NoValue
                /\ UNCHANGED <<root_pos, mid_pos, end_pos, multiplier,
                               displayInfo>>
           ELSE IF Len(positions) # 3
           THEN \* get_pole_vec_pos(*positions, 1) takes three positions
                /\ Raise("TypeError", <<"ls">> \o Queries(Len(joints)))
                /\ ret' = NoValue
                /\ UNCHANGED <<root_pos, mid_pos, end_pos, multiplier,
                               displayInfo>>
           ELSE /\ root_pos' = positions[1]
                /\ mid_pos' = positions[2]
                /\ end_pos' = positions[3]
                /\ multiplier' = MainMultiplier
                /\ \E zn \in ZeroNormalOutcomes :
                     LET r == GetPoleVecPos(positions[1], positions[2],
                                            positions[3], MainMultiplier, zn)
                         called == <<"ls">> \o Queries(3)
                                       \o <<"get_pole_vec_pos">>
                     IN  /\ ret' = r.value
                         /\ displayInfo' = displayInfo \o r.info
                         /\ IF r.raised # "none"
                            THEN Raise(r.raised, called)
                            ELSE LET placed == PlaceLocator(locators, r.value)
                                 IN  /\ pc' = "returned"
                                     /\ error' = "none"
                                     /\ locators' = placed.locators
                                     /\ selection' = placed.selection
                                     /\ hostCalls' = called \o <<"displayInfo">>
                                                         \o placed.calls

Next == Main

Spec == Init /\ [][Next]_vars

(***************************************************************************)
(* Vocabulary of the properties.                                           *)
(***************************************************************************)
RootV == MVector(root_pos)
MidV == MVector(mid_pos)
EndV == MVector(end_pos)

SameEnds == root_pos = end_pos

MidOnLine ==
    /\ root_pos # end_pos
    /\ SqDistToLine(root_pos, mid_pos, end_pos) = Zero

NonDegenerate == root_pos # end_pos /\ ~MidOnLine

\* (|mid - root| + |end - mid|)
ChainLength == FAdd(Length(VSub(MidV, RootV)), Length(VSub(EndV, MidV)))

\* distance from mid to the line through root and end
MidToLine == FSqrt(SqDistToLine(root_pos, mid_pos, end_pos))

Cross(u, v) ==
    <<FSub(FMul(u[2], v[3]), FMul(u[3], v[2])),
      FSub(FMul(u[3], v[1]), FMul(u[1], v[3])),
      FSub(FMul(u[1], v[2]), FMul(u[2], v[1]))>>

\* p lies on the line through r and e
Collinear(p, r, e) == Cross(VSub(p, r), VSub(e, r)) = <<Zero, Zero, Zero>>

\* The position as the specification writes it:
\*   t = ((end - root) . (mid - root)) / ((end - root) . (end - root))
\*   closest = root + (end - root) * t
\*   pole = mid + normalize(mid - closest) * total_length
StatedPole ==
    LET t == FDiv(Dot(VSub(EndV, RootV), VSub(MidV, RootV)),
                  Dot(VSub(EndV, RootV), VSub(EndV, RootV)))
        closest == VAdd(RootV, VScale(VSub(EndV, RootV), t))
        away == VSub(MidV, closest)
        unit == VScale(away, FDiv(One, FSqrt(Dot(away, away))))
        total_length == FMul(ChainLength, multiplier)
    IN  VAdd(MidV, VScale(unit, total_length))

(***************************************************************************)
(* Properties of get_pole_vec_pos, under SpecCalc.                         *)
(***************************************************************************)

\* C1: for root # end, mid off the line and a finite multiplier, the call
\* returns exactly mid + normalize(mid - closest) * total_length, the offset
\* anchored at mid.
C1_ExactFormula ==
    (pc # "start" /\ NonDegenerate /\ IsFinite(multiplier))
        => (pc = "returned" /\ ret = StatedPole)

C1_Witness ==
    /\ pc = "returned"
    /\ NonDegenerate
    /\ IsFinite(multiplier)
    /\ multiplier # Zero
    /\ Foot(root_pos, mid_pos, end_pos) # RootV
    /\ Foot(root_pos, mid_pos, end_pos) # EndV
    /\ ret = StatedPole

\* C2: when root and end coincide the call raises (ZeroDivisionError) for
\* every mid and multiplier; it returns nothing and writes no line.
C2_CoincidentEndsRaise ==
    (pc # "start" /\ SameEnds)
        => (/\ pc = "raised"
            /\ error = "ZeroDivisionError"
            /\ ret = NoValue
            /\ displayInfo = <<>>)

C2_Witness ==
    /\ pc = "raised"
    /\ SameEnds
    /\ mid_pos # root_pos
    /\ multiplier \in NonFinite

\* C3: when root # end and mid lies on the root-end line the call raises
\* instead of returning a position.
C3_MidOnLineRaises ==
    (pc # "start" /\ MidOnLine) => (pc = "raised" /\ ret = NoValue)

\* C5: a non-finite multiplier is rejected: the call raises, returns no
\* position and writes no diagnostic line.
C5_NonFiniteMultiplierRejected ==
    (pc # "start" /\ multiplier \in NonFinite)
        => (pc = "raised" /\ ret = NoValue /\ displayInfo = <<>>)

\* C6 as stated: for non-degenerate inputs and every finite multiplier,
\* negative ones included, the distance from the returned point to mid is
\* (|mid - root| + |end - mid|) * multiplier.
C6_SignedDistance ==
    (pc = "returned" /\ NonDegenerate /\ IsFinite(multiplier))
        => Length(VSub(ret, MidV)) = FMul(ChainLength, multiplier)

\* C6 as amended: for non-degenerate inputs and every finite multiplier the
\* distance from the returned point to mid is
\* (|mid - root| + |end - mid|) * |multiplier|.
C6_Distance ==
    (pc # "start" /\ NonDegenerate /\ IsFinite(multiplier))
        => (/\ pc = "returned"
            /\ Length(VSub(ret, MidV)) = FMul(ChainLength, FAbs(multiplier)))

C6_Witness ==
    /\ pc = "returned"
    /\ NonDegenerate
    /\ FLess(multiplier, Zero)
    /\ Length(VSub(ret, MidV)) = FMul(ChainLength, FAbs(multiplier))
    /\ Length(VSub(ret, MidV)) # FMul(ChainLength, multiplier)

\* C7 as stated: for non-degenerate inputs and every multiplier # 0 the
\* returned point is never on the line through root and end.
C7_NeverCollinear ==
    (pc = "returned" /\ NonDegenerate /\ IsFinite(multiplier)
        /\ multiplier # Zero)
        => ~Collinear(ret, RootV, EndV)

\* C7 as amended: for non-degenerate inputs and every finite multiplier # 0
\* other than -dist(mid, line) / (|mid - root| + |end - mid|) the returned
\* point is not on the line through root and end.
C7_NotCollinear ==
    (pc # "start" /\ NonDegenerate /\ IsFinite(multiplier)
        /\ multiplier # Zero
        /\ FMul(ChainLength, multiplier) # FNeg(MidToLine))
        => (pc = "returned" /\ ~Collinear(ret, RootV, EndV))

C7_Witness ==
    /\ pc = "returned"
    /\ NonDegenerate
    /\ FLess(multiplier, Zero)
    /\ FLess(FMul(ChainLength, multiplier), FNeg(MidToLine))
    /\ ~Collinear(ret, RootV, EndV)

\* C8: scaling law: for non-degenerate inputs and every finite k the result
\* for multiplier k is mid + k * (result for multiplier 1 - mid); k = 0
\* gives mid and k = -1 the reflection of the k = 1 result through mid.
C8_ScalingLaw ==
    (pc # "start" /\ NonDegenerate /\ IsFinite(multiplier))
        => LET unit == GetPoleVecPos(root_pos, mid_pos, end_pos, One, "zero")
           IN  /\ pc = "returned"
               /\ unit.raised = "none"
               /\ ret = VAdd(MidV, VScale(VSub(unit.value, MidV), multiplier))
               /\ multiplier = Zero => ret = MidV
               /\ multiplier = FNeg(One)
                    => ret = VSub(VAdd(MidV, MidV), unit.value)

C8_Witness ==
    /\ pc = "returned"
    /\ NonDegenerate
    /\ multiplier = Float(2, 1)
    /\ ret # MidV
    /\ ret = VAdd(MidV,
                  VScale(VSub(GetPoleVecPos(root_pos, mid_pos, end_pos, One,
                                            "zero").value, MidV),
                         multiplier))

(***************************************************************************)
(* Properties of main, under Spec.                                         *)
(***************************************************************************)
JointsBefore == LsSelectionJoints(selBefore)

PositionsBefore == [i \in 1..Len(JointsBefore) |-> XformQuery(JointsBefore[i])]

DegenerateBefore ==
    /\ Len(JointsBefore) = 3
    /\ \/ PositionsBefore[1] = PositionsBefore[3]
       \/ SqDistToLine(PositionsBefore[1], PositionsBefore[2],
                       PositionsBefore[3]) = Zero

SuccessfulCalls ==
    <<"ls", "xform_query", "xform_query", "xform_query", "get_pole_vec_pos",
      "displayInfo", "spaceLocator", "xform", "select">>

\* C4: with any number of selected joints other than three, main raises
\* before any position is queried and before get_pole_vec_pos is called;
\* no locator is created and the selection is unchanged.
C4_WrongCountRejected ==
    (pc # "start" /\ Len(JointsBefore) # 3)
        => (/\ pc = "raised"
            /\ error = "RuntimeError"
            /\ hostCalls = <<"ls", "error">>
            /\ locators = locsBefore
            /\ selection = selBefore
            /\ displayInfo = infoBefore
            /\ ret = NoValue)

C4_Witness ==
    /\ pc = "raised"
    /\ Len(JointsBefore) = 4
    /\ error = "RuntimeError"
    /\ selection = selBefore

\* C9: in every run of main with three joints selected whose positions are
\* degenerate (root = end, or mid on the root-end line) the error reaches
\* the caller and the run ends with no locator created, no diagnostic line
\* and the selection unchanged.
C9_NoPartialResults ==
    (pc # "start" /\ DegenerateBefore)
        => (/\ pc = "raised"
            /\ locators = locsBefore
            /\ displayInfo = infoBefore
            /\ selection = selBefore)

\* C10: in every run of main with exactly three joints selected at
\* non-degenerate positions the host commands are issued in the order
\* selection check, three position queries, pole computation, diagnostic
\* line, locator creation; the joints are bound to (root, mid, end) in
\* selection order, the multiplier is 1, exactly one locator is created, at
\* the computed pole position, and the selection ends as that locator alone.
C10_SuccessfulRun ==
    (pc # "start" /\ Len(JointsBefore) = 3 /\ ~DegenerateBefore)
        => (/\ pc = "returned"
            /\ hostCalls = SuccessfulCalls
            /\ root_pos = PositionsBefore[1]
            /\ mid_pos = PositionsBefore[2]
            /\ end_pos = PositionsBefore[3]
            /\ multiplier = One
            /\ ret = StatedPole
            /\ displayInfo = Append(infoBefore, ret)
            /\ locators = Append(locsBefore, ret)
            /\ selection = << <<"locator", Len(locators)>> >>
            /\ \A i \in DOMAIN selBefore :
                   \A k \in DOMAIN selection : selection[k] # selBefore[i])

C10_Witness ==
    /\ pc = "returned"
    /\ Len(JointsBefore) = 3
    /\ ~DegenerateBefore
    /\ hostCalls = SuccessfulCalls
    /\ Len(locators) = 1
    /\ locators[1] = ret
    /\ mid_pos # root_pos
    /\ selection = << <<"locator", 1>> >>
====
